---- MODULE Spec2Model ----
(***************************************************************************)
(* A model of project2_py/helpers.py: the evaluation-metered optimization  *)
(* problems (OptimizationProblem, ConstrainedOptimizationProblem, Simple1, *)
(* Simple2, Simple3), the random-search baseline optimize_random, the      *)
(* scorer get_score and the comparison harness test_optimize.              *)
(***************************************************************************)
EXTENDS Integers, Sequences, FiniteSets, TLC

(***************************************************************************)
(* Floating-point numbers.  A number is a triple <<k, a, b>>:              *)
(*   <<0, a, 0>>  the double a (an integer of small magnitude),            *)
(*   <<0, 0, b>>  the double b * 2^-600 (a tiny value),                    *)
(*   <<1, 0, 0>>  np.inf,                                                  *)
(*   <<2, 0, 0>>  np.nan.                                                  *)
(* On these values IEEE-754 double arithmetic is exact except that a tiny  *)
(* value is absorbed when added to a non-zero integer (2^-600 is far below *)
(* half an ulp) and that the product of two tiny values underflows to 0    *)
(* (2^-1200 is below the smallest subnormal, 2^-1074).                     *)
(***************************************************************************)
Num(a) == <<0, a, 0>>

Tiny(b) == <<0, 0, b>>

Inf == <<1, 0, 0>>

NaN == <<2, 0, 0>>

Zero == Num(0)

IsFinite(u) == u[1] = 0

IsNaN(u) == u[1] = 2

\* u + v for finite u, v; inf + v = inf.
FAdd(u, v) ==
  IF u[1] = 2 \/ v[1] = 2 THEN NaN
  ELSE IF u[1] = 1 \/ v[1] = 1 THEN Inf
  ELSE IF u[2] + v[2] # 0 THEN <<0, u[2] + v[2], 0>>
  ELSE <<0, 0, u[3] + v[3]>>

FNeg(u) == IF u[1] = 0 THEN <<0, -u[2], -u[3]>> ELSE u

FSub(u, v) == FAdd(u, FNeg(v))

\* u * v for finite u, v: tiny * tiny underflows to 0.
FMul(u, v) ==
  IF u[1] # 0 \/ v[1] # 0 THEN NaN
  ELSE <<0, u[2] * v[2], u[2] * v[3] + u[3] * v[2]>>

\* u < v; every comparison with nan is False.
FLt(u, v) ==
  /\ u[1] # 2
  /\ v[1] # 2
  /\ \/ u[1] < v[1]
     \/ u[1] = v[1] /\ u[2] < v[2]
     \/ u[1] = v[1] /\ u[2] = v[2] /\ u[3] < v[3]

FLe(u, v) == u[1] # 2 /\ v[1] # 2 /\ (FLt(u, v) \/ u = v)

FMax(u, v) == IF FLt(u, v) THEN v ELSE u

\* A point or any other np.array is a sequence of numbers.
VecAdd(u, v) == [i \in 1..Len(u) |-> FAdd(u[i], v[i])]

\* The vector of the integers of a sequence.
V(s) == [i \in 1..Len(s) |-> Num(s[i])]

(***************************************************************************)
(* The fixtures.                                                           *)
(***************************************************************************)
Fixtures == <<"simple1", "simple2", "simple3">>

FixtureSet == {Fixtures[i] : i \in 1..Len(Fixtures)}

XDim(t) == IF t = "simple3" THEN 3 ELSE 2

CDim(t) == IF t = "simple3" THEN 1 ELSE 2

\* A point of nan.
NaNPoint(t) == [i \in 1..XDim(t) |-> NaN]

\* self._n = 2000 in every fixture's __init__
Budget == 2000

\* A Python exception leaving a call.
Raised(e) == [ok |-> FALSE, err |-> e, val |-> <<>>]

Returned(v) == [ok |-> TRUE, err |-> "", val |-> v]

\* _wrapped_f: the objective, a 1-vector here; x[i] of a too short x is an IndexError.
WrappedF(t, xx) ==
  IF Len(xx) < XDim(t) THEN Raised("IndexError")
  ELSE IF t = "simple1" THEN Returned(<<FMul(FNeg(xx[1]), xx[2])>>)
  ELSE IF t = "simple2" THEN
    LET d == FSub(xx[2], FMul(xx[1], xx[1]))
        e == FSub(Num(1), xx[1])
    IN Returned(<<FAdd(FMul(FMul(Num(100), d), d), FMul(e, e))>>)
  ELSE Returned(<<FAdd(FSub(xx[1], FMul(Num(2), xx[2])), xx[3])>>)

\* _wrapped_g: the gradient of the objective (Simple3's does not read x).
WrappedG(t, xx) ==
  IF t = "simple3" THEN Returned(<<Num(1), Num(-2), Num(1)>>)
  ELSE IF Len(xx) < XDim(t) THEN Raised("IndexError")
  ELSE IF t = "simple1" THEN Returned(<<FNeg(xx[2]), FNeg(xx[1])>>)
  ELSE
    LET x1 == xx[1]
        x2 == xx[2]
        cube == FMul(FMul(x1, x1), x1)
    IN Returned(<<
         FMul(Num(2), FSub(FAdd(FAdd(Num(-1), x1), FMul(Num(200), cube)),
                           FMul(FMul(Num(200), x1), x2))),
         FMul(Num(200), FAdd(FNeg(FMul(x1, x1)), x2)) >>)

\* _wrapped_c: the constraint values, satisfied when <= 0.
WrappedC(t, xx) ==
  IF Len(xx) < XDim(t) THEN Raised("IndexError")
  ELSE IF t = "simple1" THEN
    Returned(<< FSub(FAdd(xx[1], FMul(xx[2], xx[2])), Num(1)),
                FSub(FNeg(xx[1]), xx[2]) >>)
  ELSE IF t = "simple2" THEN
    LET e == FSub(xx[1], Num(1))
    IN Returned(<< FAdd(FSub(FMul(FMul(e, e), e), xx[2]), Num(1)),
                   FSub(FAdd(xx[1], xx[2]), Num(2)) >>)
  ELSE Returned(<< FSub(FAdd(FAdd(FMul(xx[1], xx[1]), FMul(xx[2], xx[2])),
                             FMul(xx[3], xx[3])), Num(1)) >>)

(***************************************************************************)
(* The state: one problem instance p, the caller's history of it, one run  *)
(* of optimize_random on p's evaluators, and the global generator.         *)
(***************************************************************************)
VARIABLES
  test,      \* the fixture class of the instance p
  ctr,       \* p._ctr
  n,         \* p._n: Num(2000), or Inf after nolimit()
  res,       \* the outcome of the last evaluation of p: [op, pre, ok, err, val]
  nf,        \* history: the caller's own f calls on p
  ng,        \* history: the caller's own g calls on p
  nc,        \* history: the caller's own c calls on p
  nfail,     \* history: the caller's own calls on p that raised
  nolim,     \* history: nolimit() was called on p
  rng,       \* the state of the global generator np.random
  pc,        \* optimize_random: "idle", "loop", "c", "done" or "raised"
  x0,        \* the x0 handed to the optimizer (test_optimize's x0 = p.x0())
  narg,      \* optimize_random's argument n
  best_x,    \* optimize_random's best_x (None before the first acceptance)
  best_f,    \* optimize_random's best_f
  best_mcv,  \* optimize_random's best_mcv
  x,         \* optimize_random's x, the candidate of the iteration
  f_x,       \* optimize_random's f_x
  ret,       \* what the last finished optimize_random call returned
  first_mcv, \* history: the violation of the run's first candidate
  entry,     \* history: count() when the run was entered
  iters,     \* history: the iterations the run has completed
  lexmin,    \* history: [set, x, f, mcv], the run's least candidate so far
  scored,    \* one get_score call: [t, x, at, out]
  cand,      \* test_optimize's argument optimize, the candidate under test
  hpc,       \* test_optimize: "off", "begin", "opt", "rand", "cmp", "end" or "raised"
  fix,       \* test_optimize: the index of the fixture in its list
  seed,      \* test_optimize: the seed of the next trial
  xvals_opt,     \* test_optimize's xvals_opt
  xvals_random,  \* test_optimize's xvals_random
  better,        \* test_optimize's better
  printed,       \* the Pass/Fail lines printed so far: [prob, pass, wins]
  betters,       \* history: the better list of every fixture judged
  started        \* history: [ctr, n] of p when the last trial called its optimizer

instVars == <<test, ctr, n, res>>

histVars == <<nf, ng, nc, nfail, nolim>>

optVars ==
  <<pc, x0, narg, best_x, best_f, best_mcv, x, f_x, ret, first_mcv, entry, iters, lexmin>>

\* optVars but x0
optRest ==
  <<pc, narg, best_x, best_f, best_mcv, x, f_x, ret, first_mcv, entry, iters, lexmin>>

harnessVars ==
  <<cand, hpc, fix, seed, xvals_opt, xvals_random, better, printed, betters, started>>

vars == <<instVars, histVars, rng, optVars, scored, harnessVars>>

\* Bounds of the exploration: the caller's own g and c calls, how far the
\* counter may run past the fixture budget, the caller's f calls around the
\* runs of the optimizer, and the largest of the small budgets handed to
\* the optimizer.
MaxG == 2

MaxC == 2

MaxOver == 4

MaxDirect == 1

MaxSmallN == 5

\* The credits an evaluation costs: self._ctr += 1 (f, c), self._ctr += 2 (g).
CostF == 1

\* A gradient charged like a plain evaluation.
CostG_One == CostF

CostG == 2

\* A constraint evaluation charged like a gradient.
CostC_Two == CostG

CostC == 1

\* The budget check with < for <=.
WithinBudget_Strict(c, lim) == FLt(Num(c), lim)

\* assert self._ctr <= self.n
WithinBudget(c, lim) == FLe(Num(c), lim)

\* The body of f, g and c after the charge: check the budget, evaluate.
Evaluate(c, lim, wrapped) ==
  IF WithinBudget(c, lim) THEN wrapped ELSE Raised("AssertionError")

NoCall == [op |-> "none", pre |-> 0] @@ Returned(<<>>)

\* p.count()
Count == ctr

\* An f that charges the call only when it is within the budget.
F_Refund(xx) ==
  /\ ctr' = IF WithinBudget(ctr + CostF, n) THEN ctr + CostF ELSE ctr
  /\ res' = [op |-> "f", pre |-> ctr] @@ Evaluate(ctr + CostF, n, WrappedF(test, xx))
  /\ UNCHANGED <<test, n>>

\* p.f(x)
F(xx) ==
  /\ ctr' = ctr + CostF
  /\ res' = [op |-> "f", pre |-> ctr] @@ Evaluate(ctr + CostF, n, WrappedF(test, xx))
  /\ UNCHANGED <<test, n>>

\* p.g(x)
G(xx) ==
  /\ ctr' = ctr + CostG
  /\ res' = [op |-> "g", pre |-> ctr] @@ Evaluate(ctr + CostG, n, WrappedG(test, xx))
  /\ UNCHANGED <<test, n>>

\* p.c(x)
C(xx) ==
  /\ ctr' = ctr + CostC
  /\ res' = [op |-> "c", pre |-> ctr] @@ Evaluate(ctr + CostC, n, WrappedC(test, xx))
  /\ UNCHANGED <<test, n>>

\* A nolimit() that sets another attribute than _n (the class also has _nc).
NoLimit_SetsNc == UNCHANGED <<test, ctr, n, res>>

\* A nolimit() that also resets the counter (as _reset does).
NoLimit_Resets == n' = Inf /\ ctr' = 0 /\ UNCHANGED <<test, res>>

\* p.nolimit()
NoLimit ==
  /\ n' = Inf
  /\ UNCHANGED <<test, ctr, res>>

(***************************************************************************)
(* A caller that uses the instance directly.                               *)
(***************************************************************************)
\* The points handed to direct calls.
CallPoints(t) ==
  IF t = "simple3" THEN {V(<<0, 0, 0>>), V(<<1, 1, 0>>)}
  ELSE {V(<<0, 0>>), V(<<1, 1>>)}

\* The caller runs when optimize_random does not (one thread).
CanCall == pc \in {"idle", "done", "raised"} /\ ctr < Budget + MaxOver

Failed == IF res'.ok THEN 0 ELSE 1

CallF ==
  /\ CanCall
  /\ \E xx \in CallPoints(test) : F(xx)
  /\ nf' = nf + 1
  /\ nfail' = nfail + Failed
  /\ UNCHANGED <<ng, nc, nolim, rng, optVars, scored, harnessVars>>

CallG ==
  /\ CanCall
  /\ ng < MaxG
  /\ \E xx \in CallPoints(test) : G(xx)
  /\ ng' = ng + 1
  /\ nfail' = nfail + Failed
  /\ UNCHANGED <<nf, nc, nolim, rng, optVars, scored, harnessVars>>

CallC ==
  /\ CanCall
  /\ nc < MaxC
  /\ \E xx \in CallPoints(test) : C(xx)
  /\ nc' = nc + 1
  /\ nfail' = nfail + Failed
  /\ UNCHANGED <<nf, ng, nolim, rng, optVars, scored, harnessVars>>

CallNoLimit ==
  /\ pc \in {"idle", "done", "raised"}
  /\ NoLimit
  /\ nolim' = TRUE
  /\ UNCHANGED <<nf, ng, nc, nfail, rng, optVars, scored, harnessVars>>

\* None
None == <<>>

\* Test(): the fixture's __init__ and _reset.
FreshInstance(t) ==
  /\ test = t
  /\ ctr = 0
  /\ n = Num(Budget)
  /\ res = NoCall

NoHistory ==
  /\ nf = 0
  /\ ng = 0
  /\ nc = 0
  /\ nfail = 0
  /\ nolim = FALSE

NoCandidateYet == [set |-> FALSE, x |-> None, f |-> Inf, mcv |-> Inf]

NoRun ==
  /\ pc = "idle"
  /\ x0 = None
  /\ narg = Zero
  /\ best_x = None
  /\ best_f = Inf
  /\ best_mcv = Inf
  /\ x = None
  /\ f_x = Zero
  /\ ret = None
  /\ first_mcv = Inf
  /\ entry = 0
  /\ iters = 0
  /\ lexmin = NoCandidateYet

NoScore == scored = [t |-> "", x |-> None, at |-> "off", out |-> Returned(<<>>)]

NoCandidate == [k |-> <<0, 0, 0>>, fallback |-> "x0", draws |-> 0, spend |-> 0]

NoHarness ==
  /\ cand = NoCandidate
  /\ hpc = "off"
  /\ fix = 0
  /\ seed = 0
  /\ xvals_opt = <<>>
  /\ xvals_random = <<>>
  /\ better = <<>>
  /\ printed = <<>>
  /\ betters = <<>>
  /\ started = [ctr |-> 0, n |-> Num(Budget)]

Init ==
  /\ \E t \in FixtureSet : FreshInstance(t)
  /\ NoHistory
  /\ rng = 0
  /\ NoRun
  /\ NoScore
  /\ NoHarness

Next == CallF \/ CallG \/ CallC \/ CallNoLimit

Spec == Init /\ [][Next]_vars

(***************************************************************************)
(* The global generator np.random: a linear congruential generator of      *)
(* period 16 stands for it.  A draw advances the state and reads the new   *)
(* state's high bits.                                                      *)
(***************************************************************************)
RngStates == 0..15

NextRng(s) == (5 * s + 3) % 16

RECURSIVE RngAfter(_, _)
\* The state after k draws.
RngAfter(s, k) == IF k = 0 THEN s ELSE RngAfter(NextRng(s), k - 1)

\* np.random.seed(seed)
Seed(sd) == sd % 16

\* 2 * np.random.rand(), read from the state a draw left: 0 or 1.
Rand2(s) == s \div 8

\* np.random.randn(), read from the state a draw left: -2, -1, 0 or 2.
Randn(s) == <<-2, -1, 0, 2>>[(s \div 4) + 1]

\* np.random.randn(d) drawn from state s.
RandnVec(s, d) == [i \in 1..d |-> Num(Randn(RngAfter(s, i)))]

\* p.x0() drawn from state s: rand(2) * 2.0, rand(2) * 2.0 - 1.0 and
\* rand(3) * (b - a) + a with b - a = (4, -4, 0), a = (-2, 2, 0).
SampleX0(t, s) ==
  LET u(i) == Rand2(RngAfter(s, i))
  IN IF t = "simple1" THEN <<Num(u(1)), Num(u(2))>>
     ELSE IF t = "simple2" THEN <<Num(u(1) - 1), Num(u(2) - 1)>>
     ELSE <<Num(2 * u(1) - 2), Num(2 - 2 * u(2)), Num(0 * u(3))>>

(***************************************************************************)
(* optimize_random(f, g, c, x0, n, count, prob) on p's evaluators.         *)
(***************************************************************************)
RECURSIVE PyMaxFrom(_, _, _)
\* Python's max(seq), folding from the left.
PyMaxFrom(seq, i, cur) ==
  IF i > Len(seq) THEN cur
  ELSE PyMaxFrom(seq, i + 1, IF FLt(cur, seq[i]) THEN seq[i] ELSE cur)

\* max_constraint_violation(c_of_x) == max(np.maximum(c_of_x, 0))
MaxViolation(cv) ==
  LET m == [i \in 1..Len(cv) |-> FMax(cv[i], Zero)]
  IN PyMaxFrom(m, 2, m[1])

\* Acceptance that takes an equally feasible candidate of equal objective.
Accepts_Ties(mcv_x, fx, bm, bf) ==
  IF FLe(mcv_x, bm)
  THEN IF FLt(mcv_x, bm) THEN TRUE ELSE FLe(fx, bf)
  ELSE FALSE

\* Whether the candidate replaces the incumbent (the nested ifs).
Accepts(mcv_x, fx, bm, bf) ==
  IF FLe(mcv_x, bm)
  THEN IF FLt(mcv_x, bm) THEN TRUE ELSE FLt(fx, bf)
  ELSE FALSE

\* The loop margin taken as 0 (while count() < n).
LoopCond_NoMargin(cnt, nn) == FLt(Num(cnt), nn)

\* The loop margin taken as 1 (while count() < n-1).
LoopCond_Margin1(cnt, nn) == FLt(Num(cnt), FSub(nn, Num(1)))

\* while count() < n-2
LoopCond(cnt, nn) == FLt(Num(cnt), FSub(nn, Num(2)))

\* The budgets a caller hands over: the instance's own, or a small one.
NArgs == {n} \cup {Num(k) : k \in 0..MaxSmallN}

\* The counter up to which a run on an instance without limit is followed.
MaxUnlimited == 12

\* The order of the candidates: a lower violation, or the same violation
\* and a lower objective.
LexLess(a, b) == FLt(a.mcv, b.mcv) \/ (a.mcv = b.mcv /\ FLt(a.f, b.f))

\* The least candidate once cd is sampled after those lexmin stands for
\* (the earlier one stays on a tie).
LexMinWith(cd) ==
  IF ~lexmin.set \/ LexLess(cd, lexmin) THEN cd ELSE lexmin

\* p.x0() is drawn; the caller hands it over as x0, or a point of nan;
\* optimize_random(p.f, p.g, p.c, x0, nn, p.count, p.prob): the call, up
\* to the first loop test.
Start(nn, xinit) ==
  /\ pc \in {"idle", "done", "raised"}
  /\ x0' = xinit
  /\ rng' = RngAfter(rng, XDim(test))
  /\ narg' = nn
  /\ best_x' = None
  /\ best_f' = Inf
  /\ best_mcv' = Inf
  /\ x' = None
  /\ f_x' = Zero
  /\ ret' = None
  /\ first_mcv' = Inf
  /\ entry' = Count
  /\ iters' = 0
  /\ lexmin' = NoCandidateYet
  /\ pc' = "loop"
  /\ UNCHANGED <<instVars, histVars, scored, harnessVars>>

\* The loop test passes: x = x0 + randn; f_x = f(x).
IterF ==
  /\ pc = "loop"
  /\ LoopCond(Count, narg)
  /\ nolim => ctr < MaxUnlimited
  /\ x' = VecAdd(x0, RandnVec(rng, Len(x0)))
  /\ rng' = RngAfter(rng, Len(x0))
  /\ F(x')
  /\ IF res'.ok
     THEN f_x' = res'.val[1] /\ pc' = "c"
     ELSE f_x' = f_x /\ pc' = "raised"
  /\ UNCHANGED <<histVars, x0, narg, best_x, best_f, best_mcv, ret, first_mcv,
                 entry, iters, lexmin, scored, harnessVars>>

\* c_x = c(x); mcv_x = max_constraint_violation(c_x); the incumbent's update.
IterC ==
  /\ pc = "c"
  /\ C(x)
  /\ IF res'.ok
     THEN LET mcv_x == MaxViolation(res'.val)
          IN /\ IF Accepts(mcv_x, f_x, best_mcv, best_f)
                THEN best_x' = x /\ best_f' = f_x /\ best_mcv' = mcv_x
                ELSE UNCHANGED <<best_x, best_f, best_mcv>>
             /\ first_mcv' = IF best_x = None /\ first_mcv = Inf
                             THEN mcv_x ELSE first_mcv
             /\ lexmin' = LexMinWith([set |-> TRUE, x |-> x, f |-> f_x, mcv |-> mcv_x])
             /\ iters' = iters + 1
             /\ pc' = "loop"
     ELSE /\ UNCHANGED <<best_x, best_f, best_mcv, first_mcv, iters, lexmin>>
          /\ pc' = "raised"
  /\ UNCHANGED <<histVars, rng, x0, narg, x, f_x, ret, entry, scored, harnessVars>>

\* The loop test fails: return best_x.
Return ==
  /\ pc = "loop"
  /\ ~LoopCond(Count, narg)
  /\ ret' = best_x
  /\ pc' = "done"
  /\ UNCHANGED <<instVars, histVars, rng, x0, narg, best_x, best_f, best_mcv,
                 x, f_x, first_mcv, entry, iters, lexmin, scored, harnessVars>>

\* The points a caller hands over: p.x0(), or on its first run a point of nan.
CallerPoints ==
  {SampleX0(test, rng)} \cup (IF pc = "idle" THEN {NaNPoint(test)} ELSE {})

CallOptimizeRandom ==
  \E nn \in NArgs : \E xinit \in CallerPoints : Start(nn, xinit)

\* The caller's own f calls before and after a run.
DirectF == nf < MaxDirect /\ CallF

\* The caller lifts the limit before any run.
DirectNoLimit == pc = "idle" /\ ~nolim /\ CallNoLimit

InitRandom ==
  /\ \E t \in FixtureSet : FreshInstance(t)
  /\ NoHistory
  /\ rng \in RngStates
  /\ NoRun
  /\ NoScore
  /\ NoHarness

NextRandom ==
  DirectF \/ DirectNoLimit \/ CallOptimizeRandom \/ IterF \/ IterC \/ Return

SpecRandom == InitRandom /\ [][NextRandom]_vars

(***************************************************************************)
(* A caller that uses every operation of the instance, with points of any  *)
(* length.  Here res is the outcome of the last operation.                 *)
(***************************************************************************)
\* The longest point handed to an evaluator.
MaxLen == 4

\* The counter up to which the caller goes on.
MaxInstCtr == 4

AnyPoints == UNION {[1..k -> {Num(0), Num(1)}] : k \in 1..MaxLen}

InstGoesOn == pc = "idle" /\ ctr < MaxInstCtr

InstF ==
  /\ InstGoesOn
  /\ \E pt \in AnyPoints : F(pt)
  /\ UNCHANGED <<histVars, rng, optVars, scored, harnessVars>>

InstG ==
  /\ InstGoesOn
  /\ \E pt \in AnyPoints : G(pt)
  /\ UNCHANGED <<histVars, rng, optVars, scored, harnessVars>>

InstC ==
  /\ InstGoesOn
  /\ \E pt \in AnyPoints : C(pt)
  /\ UNCHANGED <<histVars, rng, optVars, scored, harnessVars>>

\* p.count()
InstCount ==
  /\ InstGoesOn
  /\ res' = [op |-> "count", pre |-> ctr] @@ Returned(<<Num(Count)>>)
  /\ UNCHANGED <<test, ctr, n, histVars, rng, optVars, scored, harnessVars>>

\* p.x0(): the fixture's draw from the global generator.
InstX0 ==
  /\ InstGoesOn
  /\ res' = [op |-> "x0", pre |-> ctr] @@ Returned(SampleX0(test, rng))
  /\ rng' = RngAfter(rng, XDim(test))
  /\ UNCHANGED <<test, ctr, n, histVars, optVars, scored, harnessVars>>

\* p.xdim, p.cdim, p.nc and p.n (p.prob is the fixture's name, test)
InstRead ==
  /\ InstGoesOn
  /\ res' = [op |-> "read", pre |-> ctr]
              @@ Returned(<<Num(XDim(test)), Num(CDim(test)), Num(CDim(test)), n>>)
  /\ UNCHANGED <<test, ctr, n, histVars, rng, optVars, scored, harnessVars>>

InitInstance ==
  /\ \E t \in FixtureSet : FreshInstance(t)
  /\ NoHistory
  /\ rng \in RngStates
  /\ NoRun
  /\ NoScore
  /\ NoHarness

NextInstance ==
  InstF \/ InstG \/ InstC \/ InstCount \/ InstX0 \/ InstRead \/ CallNoLimit

SpecInstance == InitInstance /\ [][NextInstance]_vars

(***************************************************************************)
(* optimize_random as one call, on an instance of fixture t with budget    *)
(* lim.  The locals and what the run touches are a record                  *)
(* [at, ctr, rng, bx, bf, bm]: at is "loop" at the loop test, "done" once  *)
(* best_x was returned and "raised" once an evaluation failed.             *)
(***************************************************************************)
\* The loop test and, when it passes, one iteration of the body.
LoopStep(t, lim, xinit, nn, st) ==
  IF st.at # "loop" THEN st
  ELSE IF ~LoopCond(st.ctr, nn) THEN [st EXCEPT !.at = "done"]
  ELSE
    LET xn == VecAdd(xinit, RandnVec(st.rng, Len(xinit)))
        s1 == RngAfter(st.rng, Len(xinit))
        rf == Evaluate(st.ctr + CostF, lim, WrappedF(t, xn))
        rc == Evaluate(st.ctr + CostF + CostC, lim, WrappedC(t, xn))
    IN IF ~rf.ok
       THEN [st EXCEPT !.at = "raised", !.ctr = @ + CostF, !.rng = s1]
       ELSE IF ~rc.ok
       THEN [st EXCEPT !.at = "raised", !.ctr = @ + CostF + CostC, !.rng = s1]
       ELSE
         LET fx == rf.val[1]
             mcv_x == MaxViolation(rc.val)
         IN IF Accepts(mcv_x, fx, st.bm, st.bf)
            THEN [at |-> "loop", ctr |-> st.ctr + CostF + CostC, rng |-> s1,
                  bx |-> xn, bf |-> fx, bm |-> mcv_x]
            ELSE [st EXCEPT !.ctr = @ + CostF + CostC, !.rng = s1]

RECURSIVE LoopSteps(_, _, _, _, _, _)
\* k loop steps, by halving (a run of k steps nests only log k deep).
LoopSteps(t, lim, xinit, nn, st, k) ==
  IF k = 0 \/ st.at # "loop" THEN st
  ELSE IF k = 1 THEN LoopStep(t, lim, xinit, nn, st)
  ELSE LoopSteps(t, lim, xinit, nn,
                 LoopSteps(t, lim, xinit, nn, st, k \div 2), k - (k \div 2))

\* optimize_random(p.f, p.g, p.c, xinit, nn, p.count, p.prob) called at
\* counter cnt and generator state s.  With a finite nn the loop ends
\* within nn steps, each iteration spending 2 credits.
OptimizeRandom(t, lim, xinit, nn, cnt, s) ==
  LoopSteps(t, lim, xinit, nn,
            [at |-> "loop", ctr |-> cnt, rng |-> s, bx |-> None, bf |-> Inf, bm |-> Inf],
            IF IsFinite(nn) /\ nn[2] > 0 THEN nn[2] ELSE 1)

(***************************************************************************)
(* get_score(test, x)                                                      *)
(***************************************************************************)
\* score += (p_quad(x) > 0) * 1e7
Penalty == 10000000

\* np.clip(v, 0, np.inf)
Clip0(v) == IF FLt(v, Zero) THEN Zero ELSE IF FLt(Inf, v) THEN Inf ELSE v

RECURSIVE NpSumFrom(_, _, _)
\* np.sum(seq)
NpSumFrom(seq, i, acc) ==
  IF i > Len(seq) THEN acc ELSE NpSumFrom(seq, i + 1, FAdd(acc, seq[i]))

\* p_quad = lambda x: np.sum(np.clip(c(x), 0, np.inf)**2), given c(x)
PQuad(cv) ==
  NpSumFrom([i \in 1..Len(cv) |-> FMul(Clip0(cv[i]), Clip0(cv[i]))], 1, Zero)

\* A get_score that evaluates on the caller's instance.
ScoreInstance_Callers(cur) == cur

\* p = test(); p.nolimit(): the instance get_score evaluates on, whatever
\* the caller's instance cur is.
ScoreInstance(cur) == [ctr |-> 0, n |-> Inf]

\* get_score: p = test(); p.nolimit(); f(x) and c(x) on p; the result is
\* [ok, err, val] with the score in val[1], and p's counter and budget.
GetScore(t, pt) ==
  LET p == ScoreInstance([ctr |-> ctr, n |-> n])
      rf == Evaluate(p.ctr + CostF, p.n, WrappedF(t, pt))
      rc == Evaluate(p.ctr + CostF + CostC, p.n, WrappedC(t, pt))
  IN IF ~rf.ok THEN rf @@ [ctr |-> p.ctr + CostF, n |-> p.n]
     ELSE IF ~rc.ok THEN rc @@ [ctr |-> p.ctr + CostF + CostC, n |-> p.n]
     ELSE Returned(<<FAdd(rf.val[1],
                          IF FLt(Zero, PQuad(rc.val)) THEN Num(Penalty) ELSE Zero)>>)
          @@ [ctr |-> p.ctr + CostF + CostC, n |-> p.n]

(***************************************************************************)
(* get_score applied to a point: the call and its return.                  *)
(***************************************************************************)
\* The coordinates of the points scored: small integers and tiny values.
ScoreCoords == {Num(-1), Num(0), Num(1), Tiny(1), Tiny(-1)}

ScorePoints(t) == [1..XDim(t) -> ScoreCoords]

ScoreReturn ==
  /\ scored.at = "call"
  /\ scored' = [scored EXCEPT !.at = "done", !.out = GetScore(scored.t, scored.x)]
  /\ UNCHANGED <<instVars, histVars, rng, optVars, harnessVars>>

\* The counters a trial's instance is left with when its result is scored.
TrialCounters == {0, Budget - 2, Budget, Budget + CostF}

\* An instance of fixture t after a trial that left its counter at c.
UsedInstance(t, c) ==
  /\ test = t
  /\ ctr = c
  /\ n = Num(Budget)
  /\ res = NoCall

InitScore ==
  /\ \E t \in FixtureSet : \E c \in TrialCounters : UsedInstance(t, c)
  /\ NoHistory
  /\ rng = 0
  /\ NoRun
  /\ NoHarness
  /\ \E t \in FixtureSet : \E pt \in ScorePoints(t) :
        scored = [t |-> t, x |-> pt, at |-> "call", out |-> Returned(<<>>)]

NextScore == ScoreReturn

SpecScore == InitScore /\ [][NextScore]_vars

(***************************************************************************)
(* test_optimize(optimize)                                                 *)
(***************************************************************************)
\* for seed in tqdm(range(500))
NSeeds == 500

\* if frac > 0.55, in percent
ThresholdPct == 55

\* A candidate under test is [k, fallback, draws, spend]: invoked for
\* fixture i it returns a good point in the trials of seed < k[i], and
\* after that its fallback: the initial point it was given ("x0"), or a
\* point of nan ("nan"), or it goes on calling f until a call fails
\* ("overrun").  Every call of it draws `draws` numbers from np.random and
\* first spends `spend` credits on f.  The candidate "self" is
\* optimize_random.
GoodPoint(t) ==
  IF t = "simple1" THEN <<Tiny(1), Num(1)>>
  ELSE IF t = "simple2" THEN <<Num(1), Num(1)>>
  ELSE <<Num(0), Num(1), Num(0)>>

Candidates ==
  [k : {<<0, 0, 0>>, <<275, 500, 276>>, <<276, 0, 275>>, <<500, 276, 500>>},
   fallback : {"x0", "nan"}, draws : {0}, spend : {0}]
  \cup [k : {<<276, 0, 275>>}, fallback : {"x0"}, draws : {3}, spend : {0, Budget}]
  \cup [k : {<<0, 0, 0>>}, fallback : {"self"}, draws : {0}, spend : {0}]
  \cup [k : {<<500, 3, 0>>}, fallback : {"overrun"}, draws : {0}, spend : {0}]

\* p = test(); np.random.seed(seed); x0 = p.x0(); xb = optimize_random(...)
\* from the generator state s the seeding left.
RandomTrial(t, s) ==
  OptimizeRandom(t, Num(Budget), SampleX0(t, s), Num(Budget), 0, RngAfter(s, XDim(t)))

\* The baseline's trial on every fixture from every state a seed can leave
\* the generator in (a table, so that each trial is worked out once).
RandomTrials == [t \in FixtureSet |-> [s \in RngStates |-> RandomTrial(t, s)]]

\* xb = optimize_random(p.f, p.g, p.c, x0, p.n, p.count, p.prob) on an
\* instance whose counter is c0, x0 = p.x0() drawn at generator state s0.
RandomRun(t, s0, c0) ==
  IF c0 = 0 THEN RandomTrials[t][s0]
  ELSE OptimizeRandom(t, Num(Budget), SampleX0(t, s0), Num(Budget), c0,
                      RngAfter(s0, XDim(t)))

\* k calls of p.f by the candidate, the counter at c0 before them: they all
\* return, or the first one over the budget raises and ends the run.
SpendOnF(t, xinit, c0, k) ==
  LET r == Evaluate(c0 + k * CostF, Num(Budget), WrappedF(t, xinit))
  IN IF k = 0 \/ r.ok THEN [ok |-> TRUE, err |-> "", ctr |-> c0 + k * CostF]
     ELSE [ok |-> FALSE, err |-> r.err,
           ctr |-> (IF c0 < Budget THEN Budget ELSE c0) + CostF]

\* optimize(p.f, p.g, p.c, x0, p.n, p.count, p.prob) of candidate cd in the
\* trial of seed sd on fixture number i, where s0 is the generator's state
\* at x0 = p.x0() and c0 is p's counter: [ok, err] whether it returned or
\* raised, xb the point returned, and the generator's state and p's counter
\* when it ended.
Optimize(cd, i, sd, s0, c0) ==
  LET t == Fixtures[i]
      s == RngAfter(s0, XDim(t))
      xinit == SampleX0(t, s0)
  IN IF cd.fallback = "self"
     THEN LET run == RandomRun(t, s0, c0)
          IN [ok |-> run.at = "done",
              err |-> IF run.at = "done" THEN "" ELSE "AssertionError",
              xb |-> run.bx, rng |-> run.rng, ctr |-> run.ctr]
     ELSE LET spent == SpendOnF(t, xinit, c0,
                                IF cd.fallback = "overrun" /\ sd >= cd.k[i]
                                THEN Budget + 1 ELSE cd.spend)
          IN [ok |-> spent.ok,
              err |-> spent.err,
              xb |-> IF sd < cd.k[i] THEN GoodPoint(t)
                     ELSE IF cd.fallback = "nan" THEN NaNPoint(t)
                     ELSE xinit,
              rng |-> RngAfter(s, cd.draws),
              ctr |-> spent.ctr]

\* A harness whose trials go on with the instance of the trial before.
TrialStart_Shared(prev) == prev

\* p = test(): the counter of the instance a trial constructs.
TrialStart(prev) == 0

\* A harness that swallows what the optimizer raises.
AfterTrial_Swallow(ok, at) == at

\* Where test_optimize is after the optimizer's call at `at`: an exception
\* is not caught, it leaves test_optimize.
AfterTrial(ok, at) == IF ok THEN at ELSE "raised"

\* A harness that leaves the generator as the last trial left it.
Reseed_Keep(cur, sd) == cur

\* np.random.seed(seed): the generator's state after it, from state cur.
Reseed(cur, sd) == Seed(sd)

\* np.any(np.isnan(xb))
AnyNaN(pt) == \E i \in 1..Len(pt) : IsNaN(pt[i])

\* A comparison that counts equal scores as a win.
Beats_OrTies(t, xb_rand, xb_opt) ==
  IF AnyNaN(xb_opt) THEN FALSE
  ELSE FLe(GetScore(t, xb_opt).val[1], GetScore(t, xb_rand).val[1])

\* One entry of better.
Beats(t, xb_rand, xb_opt) ==
  IF AnyNaN(xb_opt) THEN FALSE
  ELSE FLt(GetScore(t, xb_opt).val[1], GetScore(t, xb_rand).val[1])

\* The number of True entries of a list.
CountTrue(bs) == Cardinality({j \in 1..Len(bs) : bs[j]})

\* The verdict with >= for >.
PassVerdict_AtLeast(bs) == 100 * CountTrue(bs) >= ThresholdPct * Len(bs)

\* frac = np.mean(better); frac > 0.55
PassVerdict(bs) == 100 * CountTrue(bs) > ThresholdPct * Len(bs)

\* for test in [...]: p = test(); the lists start empty.
BeginFixture ==
  /\ hpc = "begin"
  /\ test' = Fixtures[fix]
  /\ ctr' = 0
  /\ n' = Num(Budget)
  /\ xvals_opt' = <<>>
  /\ seed' = 0
  /\ hpc' = "opt"
  /\ UNCHANGED <<res, histVars, rng, optVars, scored, cand, fix, xvals_random,
                 better, printed, betters, started>>

\* One trial of the candidate: a fresh p, the seed, x0, the call.
OptTrial ==
  /\ hpc = "opt"
  /\ seed < NSeeds
  /\ LET s0 == Reseed(rng, seed)
         c0 == TrialStart(ctr)
         out == Optimize(cand, fix, seed, s0, c0)
     IN /\ started' = [ctr |-> c0, n |-> Num(Budget)]
        /\ x0' = SampleX0(Fixtures[fix], s0)
        /\ rng' = out.rng
        /\ ctr' = out.ctr
        /\ hpc' = AfterTrial(out.ok, hpc)
        /\ IF hpc' = "raised"
           THEN /\ res' = [op |-> "f", pre |-> out.ctr - CostF] @@ Raised(out.err)
                /\ UNCHANGED <<xvals_opt, seed>>
           ELSE /\ xvals_opt' = Append(xvals_opt, out.xb)
                /\ seed' = seed + 1
                /\ UNCHANGED res
  /\ test' = Fixtures[fix]
  /\ n' = Num(Budget)
  /\ UNCHANGED <<histVars, optRest, scored, cand, fix, xvals_random,
                 better, printed, betters>>

\* The candidate's loop is over: xvals_random = [].
OptDone ==
  /\ hpc = "opt"
  /\ seed = NSeeds
  /\ xvals_random' = <<>>
  /\ seed' = 0
  /\ hpc' = "rand"
  /\ UNCHANGED <<instVars, histVars, rng, optVars, scored, cand, fix, xvals_opt,
                 better, printed, betters, started>>

\* One trial of the baseline: a fresh p, the seed, x0, optimize_random.
RandTrial ==
  /\ hpc = "rand"
  /\ seed < NSeeds
  /\ LET s0 == Reseed(rng, seed)
         c0 == TrialStart(ctr)
         run == RandomRun(Fixtures[fix], s0, c0)
     IN /\ started' = [ctr |-> c0, n |-> Num(Budget)]
        /\ x0' = SampleX0(Fixtures[fix], s0)
        /\ rng' = run.rng
        /\ ctr' = run.ctr
        /\ hpc' = AfterTrial(run.at = "done", hpc)
        /\ IF hpc' = "raised"
           THEN /\ res' = [op |-> "f", pre |-> run.ctr - CostF]
                            @@ Raised("AssertionError")
                /\ UNCHANGED <<xvals_random, seed>>
           ELSE /\ xvals_random' = Append(xvals_random, run.bx)
                /\ seed' = seed + 1
                /\ UNCHANGED res
  /\ test' = Fixtures[fix]
  /\ n' = Num(Budget)
  /\ UNCHANGED <<histVars, optRest, scored, cand, fix, xvals_opt,
                 better, printed, betters>>

\* The baseline's loop is over.
RandDone ==
  /\ hpc = "rand"
  /\ seed = NSeeds
  /\ hpc' = "cmp"
  /\ UNCHANGED <<instVars, histVars, rng, optVars, scored, cand, fix, seed,
                 xvals_opt, xvals_random, better, printed, betters, started>>

\* The comparison of the two lists, the fraction and the line printed.
Compare ==
  /\ hpc = "cmp"
  /\ better' = [j \in 1..Len(xvals_opt) |->
                  Beats(Fixtures[fix], xvals_random[j], xvals_opt[j])]
  /\ printed' = Append(printed, [prob |-> test, pass |-> PassVerdict(better'),
                                 wins |-> CountTrue(better')])
  /\ betters' = Append(betters, better')
  /\ IF fix < Len(Fixtures)
     THEN fix' = fix + 1 /\ hpc' = "begin"
     ELSE fix' = fix /\ hpc' = "end"
  /\ UNCHANGED <<instVars, histVars, rng, optVars, scored, cand, seed,
                 xvals_opt, xvals_random, started>>

InitHarness ==
  /\ FreshInstance("simple1")
  /\ NoHistory
  /\ rng = 0
  /\ NoRun
  /\ NoScore
  /\ cand \in Candidates
  /\ hpc = "begin"
  /\ fix = 1
  /\ seed = 0
  /\ xvals_opt = <<>>
  /\ xvals_random = <<>>
  /\ better = <<>>
  /\ printed = <<>>
  /\ betters = <<>>
  /\ started = [ctr |-> 0, n |-> Num(Budget)]

NextHarness == BeginFixture \/ OptTrial \/ OptDone \/ RandTrial \/ RandDone \/ Compare

SpecHarness == InitHarness /\ [][NextHarness]_vars

(***************************************************************************)
(* The claims about one instance, checked under Spec.                      *)
(***************************************************************************)
\* The cost the claims give each evaluation.
ClaimedCost(op) == IF op = "g" THEN 2 ELSE 1

\* C1: after k calls of f, m of c and j of g in any order, with k+m+2j
\* within the budget, no call has failed and count() is k+m+2j.
C1_CountIsSumOfCosts ==
  nf + nc + 2 * ng <= Budget =>
    /\ nfail = 0
    /\ res.ok
    /\ Count = nf + nc + 2 * ng

\* All three kinds of call were made and the counter stands at the budget.
C1_Witness ==
  /\ nf > 0 /\ nc > 0 /\ ng > 0
  /\ ~nolim
  /\ nf + nc + 2 * ng = Budget
  /\ Count = Budget

\* C2: on a metered instance a call of cost k made at counter n0 returns a
\* value iff n0 + k <= budget; so after a call that returned, the counter
\* is within the budget.
C2_SucceedsIffWithinBudget ==
  (res.op # "none" /\ ~nolim) =>
    /\ res.ok <=> res.pre + ClaimedCost(res.op) <= Budget
    /\ res.ok => (Count <= Budget /\ Len(res.val) > 0)
    /\ ~res.ok => res.err = "AssertionError"

\* g called with one credit left fails, where f or c would have succeeded.
C2_Witness ==
  /\ ~nolim
  /\ res.op = "g"
  /\ res.pre = Budget - 1
  /\ ~res.ok

\* C3: once nolimit() was called, the budget stays disabled, every call
\* returns a value, and the counter goes up by the call's cost.
C3_UnlimitedForever ==
  [][nolim =>
       /\ nolim' /\ n' = Inf
       /\ res' # res => /\ res'.ok
                        /\ res'.pre = ctr
                        /\ ctr' = ctr + ClaimedCost(res'.op)]_vars

\* A call that returned past the budget, after an earlier call had failed.
C3_Witness ==
  /\ nolim
  /\ nfail > 0
  /\ res.ok
  /\ res.pre > Budget

\* An f, g or c call on an instance whose limit is on.
MeteredCall == ~nolim /\ ~nolim' /\ (res' # res \/ ctr' # ctr)

\* C17: on a metered instance a call that fails has charged its cost all
\* the same, so the counter is above the budget after it; from then on
\* every f, g and c call fails (and charges); a g that fails at budget - 1
\* makes the next f fail.
C17_FailedCallCharges ==
  [][MeteredCall =>
       /\ ctr' = ctr + ClaimedCost(res'.op)
       /\ ~res'.ok => (ctr' > Budget /\ res'.err = "AssertionError")
       /\ ctr > Budget => ~res'.ok
       /\ (res.op = "g" /\ res.pre = Budget - 1 /\ ~res.ok) => ~res'.ok]_vars

\* A g call at budget - 1, with one credit left, failed as the first
\* failure of the instance and left the counter at budget + 1.
C17_Witness ==
  /\ ~nolim
  /\ nfail = 1
  /\ res.op = "g"
  /\ res.pre = Budget - 1
  /\ ~res.ok
  /\ ctr = Budget + 1

(***************************************************************************)
(* The claims about optimize_random, checked under SpecRandom.             *)
(***************************************************************************)
InRun == pc \in {"loop", "c"}

\* The violation of a point, evaluated outside any budget.
ViolationAt(t, pt) == MaxViolation(WrappedC(t, pt).val)

\* C4: in a run handed the instance's own budget, from a counter within
\* the budget no f or c call fails and the counter stays within the
\* budget, at every step and when the function returns.
C4_NeverExceedsBudget ==
  [][(InRun /\ ~nolim /\ narg = n /\ Count <= Budget) =>
       /\ pc' # "raised"
       /\ res' # res => res'.ok
       /\ Count' <= Budget
       /\ pc' = "done" => ret' = best_x]_vars

\* A run with the fixture's budget that sampled and ended one credit short
\* of the budget.
C4_Witness ==
  /\ pc = "done"
  /\ narg = Num(Budget)
  /\ best_x # None
  /\ res.op = "c"
  /\ Count = Budget - 1

\* The step in which the loop test fails and the function returns.
LoopExit == pc = "loop" /\ pc' = "done"

\* C5 as claimed: when the loop exits, fewer than 2 credits are left.
C5_ExitsWhenPairUnaffordable ==
  [][LoopExit => FLt(FSub(narg, Num(Count')), Num(2))]_vars

\* C5 amended: when the loop exits, at most 2 credits are left; at least 1
\* when the loop ran; and exactly 2 after a run with the fixture's budget
\* on an instance nobody else called.
C5_ExitsWithinTwoCredits ==
  [][LoopExit =>
       /\ FLe(FSub(narg, Num(Count')), Num(2))
       /\ best_x # None => FLe(Num(1), FSub(narg, Num(Count')))
       /\ (nf = 0 /\ narg = Num(Budget)) => Count' = Budget - 2]_vars

\* The run on a fresh fixture has ended with two credits unspent.
C5_Witness ==
  /\ pc = "done"
  /\ nf = 0
  /\ narg = Num(Budget)
  /\ best_x # None
  /\ Count = Budget - 2

\* C6: an iteration replaces the incumbent only by its candidate, and only
\* when the candidate is strictly more feasible, or equally feasible with
\* a strictly lower objective; best_mcv never increases; the point
\* returned violates no more than the run's first candidate.
C6_IncumbentOnlyImproves ==
  [][/\ (pc = "c" /\ pc' = "loop") =>
          LET mcv_x == MaxViolation(res'.val)
              replaced == <<best_x', best_f', best_mcv'>> # <<best_x, best_f, best_mcv>>
          IN /\ FLe(best_mcv', best_mcv)
             /\ FLt(best_mcv, mcv_x) => ~replaced
             /\ replaced =>
                  /\ <<best_x', best_f', best_mcv'>> = <<x, f_x, mcv_x>>
                  /\ \/ FLt(mcv_x, best_mcv)
                     \/ mcv_x = best_mcv /\ FLt(f_x, best_f)
             /\ (replaced /\ best_mcv' = best_mcv) => FLt(best_f', best_f)
     /\ (pc' = "done" /\ ret' # None) =>
          /\ ViolationAt(test, ret') = best_mcv
          /\ FLe(ViolationAt(test, ret'), first_mcv)]_vars

\* The point returned is strictly more feasible than the first candidate.
C6_Witness ==
  /\ pc = "done"
  /\ ret # None
  /\ FLt(ViolationAt(test, ret), first_mcv)

\* C7 as claimed: a run in which no candidate replaced the incumbent
\* returns the initial point x0.
C7_ReturnsInitialPoint ==
  (pc = "done" /\ best_x = None) => ret = x0

(***************************************************************************)
(* The claim about get_score, checked under SpecScore.                     *)
(***************************************************************************)
\* Every constraint value at pt is <= 0.
Satisfied(t, pt) ==
  LET cv == WrappedC(t, pt).val
  IN \A i \in 1..Len(cv) : FLe(cv[i], Zero)

\* C8 as claimed: the score get_score returns is f(x) when every constraint
\* value at x is <= 0, and f(x) + 10,000,000 when some constraint value is
\* > 0, whatever the size of the violation.
C8_StepPenalty ==
  scored.at = "done" =>
    LET fx == WrappedF(scored.t, scored.x).val[1]
    IN /\ scored.out.ok
       /\ scored.out.val[1] =
            IF Satisfied(scored.t, scored.x) THEN fx ELSE FAdd(fx, Num(10000000))

(***************************************************************************)
(* The claims about test_optimize, checked under SpecHarness.              *)
(***************************************************************************)
\* A fixture's comparison has just been made: better, xvals_opt and
\* xvals_random are the lists of the fixture printed last.
Compared == hpc \in {"begin", "end"} /\ Len(printed) > 0

ScoreOf(t, pt) == GetScore(t, pt).val[1]

\* C9: for every fixture and seed, the trial is a win exactly when the
\* candidate's point holds no nan and its score is strictly less than the
\* score of the baseline's point; a point with nan loses, equal scores lose.
C9_WinIffStrictlyBetter ==
  Compared =>
    LET t == Fixtures[Len(printed)]
    IN /\ Len(xvals_opt) = 500
       /\ Len(xvals_random) = 500
       /\ Len(better) = 500
       /\ \A j \in 1..500 :
            /\ better[j] <=> /\ ~AnyNaN(xvals_opt[j])
                             /\ FLt(ScoreOf(t, xvals_opt[j]), ScoreOf(t, xvals_random[j]))
            /\ AnyNaN(xvals_opt[j]) => ~better[j]
            /\ ScoreOf(t, xvals_opt[j]) = ScoreOf(t, xvals_random[j]) => ~better[j]

\* One fixture's comparison holds a win, a loss by nan and a loss by equal
\* scores of a point without nan.
C9_Witness ==
  /\ Compared
  /\ \E j \in 1..Len(better) : better[j]
  /\ \E j \in 1..Len(better) : AnyNaN(xvals_opt[j]) /\ ~better[j]
  /\ \E j \in 1..Len(better) :
        /\ ~AnyNaN(xvals_opt[j])
        /\ ScoreOf(Fixtures[Len(printed)], xvals_opt[j])
             = ScoreOf(Fixtures[Len(printed)], xvals_random[j])
        /\ ~better[j]

IsOptTrial == hpc = "opt" /\ seed' = seed + 1

IsRandTrial == hpc = "rand" /\ seed' = seed + 1

\* C11: in every trial of the candidate and of the baseline the initial
\* point handed over is the one the fixture draws right after seeding with
\* the trial's seed, so both optimizers get the same point for a seed; and
\* the point the baseline returns is the one optimize_random returns from
\* that seed on a fresh instance, whatever the candidate did or drew and
\* whatever the earlier trials were.
C11_ReseededEveryTrial ==
  [][/\ (IsOptTrial \/ IsRandTrial) => x0' = SampleX0(Fixtures[fix], Seed(seed))
     /\ IsRandTrial =>
          /\ Len(xvals_random') = seed + 1
          /\ xvals_random'[seed + 1] = RandomTrials[Fixtures[fix]][Seed(seed)].bx
          /\ \A j \in 1..seed : xvals_random'[j] = xvals_random[j]]_vars

\* A baseline trial has run for a candidate that draws numbers of its own,
\* and the generator is left in another state than the next seed sets.
C11_Witness ==
  /\ hpc = "rand"
  /\ seed > 0
  /\ cand.draws > 0
  /\ rng # Seed(seed)
  /\ x0 = SampleX0(Fixtures[fix], Seed(seed - 1))
  /\ xvals_random[seed] = RandomTrials[Fixtures[fix]][Seed(seed - 1)].bx
  /\ xvals_random[seed] # None

\* The candidate under test is optimize_random itself.
SelfTest == cand.fallback = "self"

\* C12 as claimed: with optimize_random as the candidate, the fraction of
\* wins on each fixture is near 0.5 (here: within 0.25 of it) and not above
\* 0.55, and the verdict is Fail.
C12_SelfTestNearHalf ==
  SelfTest =>
    \A i \in 1..Len(printed) :
      /\ ~printed[i].pass
      /\ 125 <= printed[i].wins
      /\ printed[i].wins <= 275

\* C12 amended: with optimize_random as the candidate, both optimizers
\* return the same point in every trial, no trial is a win (the fraction is
\* 0), and the verdict of each fixture is Fail.
C12_SelfTestNeverWins ==
  SelfTest =>
    /\ Compared => xvals_opt = xvals_random
    /\ \A i \in 1..Len(printed) :
         /\ ~printed[i].pass
         /\ printed[i].wins = 0

\* The self test has printed its three verdicts.
C12_Witness ==
  /\ SelfTest
  /\ hpc = "end"
  /\ Len(printed) = 3
  /\ \A i \in 1..3 : printed[i].wins = 0 /\ ~printed[i].pass
  /\ \E j \in 1..Len(xvals_opt) : xvals_opt[j] # None

\* The candidate's call in the trial about to run raises.
CandidateRaises ==
  /\ hpc = "opt"
  /\ seed < NSeeds
  /\ ~Optimize(cand, fix, seed, Seed(seed), 0).ok

\* C15: when an evaluation made by the candidate fails for the budget, the
\* trial ends test_optimize there: the error is the evaluator's, no point
\* and no win is recorded for the trial, no verdict is printed for the
\* fixture, and test_optimize takes no further step.
C15_FailurePropagates ==
  [][/\ CandidateRaises =>
          /\ hpc' = "raised"
          /\ ~res'.ok
          /\ res'.err = "AssertionError"
          /\ ctr' > Budget
          /\ UNCHANGED <<xvals_opt, xvals_random, better, printed, betters, seed, fix>>
          /\ Len(printed') = fix - 1
     /\ hpc # "raised"]_vars

\* The run ended in the second fixture, after the first one's verdict.
C15_Witness ==
  /\ hpc = "raised"
  /\ fix = 2
  /\ Len(printed) = 1
  /\ Len(xvals_opt) = seed
  /\ seed > 0
  /\ ~res.ok

\* C16: every trial hands its optimizer the evaluators of an instance
\* whose counter is 0 and whose budget is 2000, and at the end of the trial
\* the instance has been charged for that trial's evaluations only (the
\* baseline's 1998, the candidate's own spending).
C16_FreshInstancePerTrial ==
  [][/\ (IsOptTrial \/ IsRandTrial \/ CandidateRaises) =>
          /\ started' = [ctr |-> 0, n |-> Num(Budget)]
          /\ n' = Num(Budget)
     /\ IsRandTrial =>
          /\ ctr' = RandomTrials[Fixtures[fix]][Seed(seed)].ctr
          /\ ctr' <= Budget
     /\ (IsOptTrial /\ cand.fallback \in {"x0", "nan"}) => ctr' = cand.spend]_vars

\* A trial has run after a trial that used the whole budget.
C16_Witness ==
  /\ hpc = "opt"
  /\ seed >= 2
  /\ cand.spend = Budget
  /\ ctr = Budget
  /\ started.ctr = 0

(***************************************************************************)
(* The claims about the operations of one instance, checked under          *)
(* SpecInstance.                                                           *)
(***************************************************************************)
\* C13 as claimed: a call of f, g or c with a point whose length differs
\* from the fixture's xdim, shorter or longer, raises an error (whatever its
\* name) and returns no value.
C13_WrongLengthRaises ==
  [][\A pt \in AnyPoints :
       (Len(pt) # XDim(test) /\ (F(pt) \/ G(pt) \/ C(pt))) => ~res'.ok]_vars

\* C14: the counter is 0 at construction and never decreases; a step that
\* changes it is an f, g or c call, which adds its cost; count(), x0() and
\* the reads of xdim, cdim, nc and n leave the instance as it is; nolimit()
\* changes the budget and nothing else of the instance.
C14_CounterFrame ==
  /\ ctr = 0
  /\ [][/\ ctr' >= ctr
        /\ ctr' # ctr =>
             /\ res'.op \in {"f", "g", "c"}
             /\ res'.pre = ctr
             /\ ctr' = ctr + ClaimedCost(res'.op)
        /\ (res' # res /\ res'.op \in {"count", "x0", "read"}) =>
             UNCHANGED <<test, ctr, n>>
        /\ (n' # n \/ nolim' # nolim) =>
             (n' = Inf /\ UNCHANGED <<test, ctr, res>>)]_vars

\* x0() was called on an instance that has spent credits and had its
\* limit lifted, and the counter is where the evaluations left it.
C14_Witness ==
  /\ nolim
  /\ n = Inf
  /\ ctr > 0
  /\ res.op = "x0"
  /\ res.pre = ctr

\* ---- claims about the length and the result of a run ----

\* The iterations claimed for a run entered at counter c with budget nn.
ClaimedIterations(nn, c) ==
  IF nn[2] - 2 - c <= 0 THEN 0 ELSE (nn[2] - 2 - c + 1) \div 2

\* C18: a run with a finite budget n entered at counter c ends after
\* exactly max(0, ceil((n - 2 - c) / 2)) iterations; every iteration calls
\* f once and c once, never g, and spends 2 credits; entered on a fresh
\* fixture with the fixture's budget the run makes 999 iterations and ends
\* at count 1998; a run with an infinite budget never leaves the loop.
C18_ExactIterations ==
  [][/\ LoopExit =>
          /\ IsFinite(narg)
          /\ iters = ClaimedIterations(narg, entry)
          /\ Count = entry + 2 * iters
          /\ (entry = 0 /\ narg = Num(Budget)) => (iters = 999 /\ Count = 1998)
     /\ (InRun /\ res' # res) => (res'.op \in {"f", "c"} /\ res'.ok)
     /\ (pc = "loop" /\ pc' = "c") => (res'.op = "f" /\ Count' = entry + 2 * iters + 1)
     /\ (pc = "c" /\ pc' = "loop") =>
          (res'.op = "c" /\ iters' = iters + 1 /\ Count' = entry + 2 * iters')
     /\ (pc = "loop" /\ narg = Inf) => pc' # "done"]_vars

\* A run on a fresh fixture with the fixture's budget has returned after 999
\* iterations at count 1998.
C18_Witness ==
  /\ pc = "done"
  /\ entry = 0
  /\ narg = Num(Budget)
  /\ iters = 999
  /\ Count = 1998
  /\ res.op = "c"

\* The run was handed a point with a nan coordinate.
NaNStart == \E i \in DOMAIN x0 : IsNaN(x0[i])

\* The returned point is the run's least candidate, the earliest on a tie.
ReturnsLeast ==
  /\ ret' # None
  /\ lexmin.set
  /\ ret' = lexmin.x
  /\ best_f = lexmin.f
  /\ best_mcv = lexmin.mcv

\* Every candidate is x0 plus noise drawn for it.
SampledAroundX0 ==
  (pc = "loop" /\ pc' = "c") =>
    /\ x' = VecAdd(x0, RandnVec(rng, Len(x0)))
    /\ rng' = RngAfter(rng, Len(x0))

\* C19: when the loop ran at least once the returned point is a sampled
\* candidate, never absent: the least one by (violation, objective), the
\* earliest among ties; every candidate is x0 plus fresh noise.
C19_ReturnsLeastCandidate ==
  [][/\ (LoopExit /\ iters > 0) => ReturnsLeast
     /\ SampledAroundX0]_vars

\* The same for runs handed a point without nan; a run handed a point with
\* nan returns no point.
C19_LeastAmongComparable ==
  [][/\ (LoopExit /\ iters > 0 /\ ~NaNStart) => ReturnsLeast
     /\ (LoopExit /\ NaNStart) => ret' = None
     /\ SampledAroundX0]_vars

\* A run handed a point of nan returned no point after 999 iterations.
C19_Witness ==
  /\ pc = "done"
  /\ NaNStart
  /\ iters = 999
  /\ lexmin.set
  /\ ret = None

\* A run handed a point without nan returned, after a candidate tied with
\* the incumbent on both keys had been sampled.
C19_TieKeptEarliest ==
  /\ pc = "done"
  /\ iters > 1
  /\ ~NaNStart
  /\ ret = lexmin.x
  /\ ret # x
  /\ f_x = lexmin.f
  /\ res.op = "c"
  /\ res.ok
  /\ MaxViolation(res.val) = lexmin.mcv

\* ---- the instance get_score evaluates on ----

\* C20: get_score evaluates on an instance of its own with the budget
\* disabled: whatever the counter of the trial's instance it does not fail,
\* it leaves the fixture, counter and budget of the trial's instance as they
\* were, and its one f and one c are charged to its own instance, which ends
\* at count 2 without limit.
C20_ScoresOnOwnInstance ==
  [][(scored.at = "call" /\ scored'.at = "done") =>
       /\ scored'.out.ok
       /\ scored'.out.ctr = 2
       /\ scored'.out.n = Inf
       /\ <<test, ctr, n, nolim, nf, ng, nc, nfail, res>>' =
            <<test, ctr, n, nolim, nf, ng, nc, nfail, res>>]_vars

\* A point was scored while the trial's instance stood at its budget.
C20_Witness ==
  /\ scored.at = "done"
  /\ scored.out.ok
  /\ ctr = Budget
  /\ n = Num(Budget)
  /\ ~nolim

====
